---- MODULE Spec2Model ----
(***************************************************************************)
(* A model of bin/s3cp.py (JaneliaSciComp/freight): the command line is    *)
(* validated, a job list is built by one of four builders, the jobs are    *)
(* run by a pool of workers one partition at a time, and statistics are    *)
(* printed.                                                                *)
(***************************************************************************)
EXTENDS Integers, Sequences, FiniteSets, TLC

\* ---------------------------------------------------------------- bounds
MaxPaths == 2        \* source paths on the command line
MaxFiles == 2        \* files under a source path, objects under a remote path, lines of an order file
MaxSize == 1         \* size of one file in bytes
MaxWorkers == 2      \* --workers
MaxTime == 1         \* elapsed seconds measured around compute()

\* ----------------------------------------------------- program constants
Tries == 8           \* tries = 8 in upload_single_file
ExitFail == -1       \* sys.exit(-1)

\* ---------------------------------------------------------------- inputs
\* Keys and local file names are strings, modelled as sequences of characters.
KA == <<"a", "/", "b">>
KB == <<"a", "/", "a">>
NoField == <<>>

\* The lines an order file may hold, each a sequence of tab-separated fields.
OrderLines == { <<KA>>, <<KB>>, <<KA, KB>>, <<KA, NoField>>, <<KA, KB, KA>> }

\* The tag mapping built from the five tag options: empty or not.
NoTags == {}
SomeTags == {"version_tag"}

RECURSIVE SeqSum(_)
SeqSum(s) == IF s = <<>> THEN 0 ELSE Head(s) + SeqSum(Tail(s))

SeqsUpTo(S, n) == UNION { [1..k -> S] : k \in 0..n }

VARIABLES
    opts,          \* the command line options
    pc,            \* position of the main process
    exit_code,     \* process exit status, "none" while running
    order_lines,   \* the lines of the order file once it is read
    path_i,        \* loop index of "for source_path in source_paths"
    result,        \* the lazy bag: "none" or the name of the iter function
    sources, dests, tagseq,   \* the sequences the bag is built from
    source_count, source_size,
    selected,      \* history: files and bytes the builder calls selected, until
                   \* execute_transfers takes over
    total,         \* execute_transfers' totals dictionary
    psize,         \* partition size chosen by bag.from_sequence
    workers,       \* the --workers option, handed to compute() as num_workers
    parts,         \* per partition: status and loop position
    jobs,          \* per job: progress of its single-file function
    io,            \* what the main process has touched so far
    out            \* lines printed by print_stats

vars == << opts, pc, exit_code, order_lines, path_i, result, sources, dests, tagseq,
           source_count, source_size, selected, total, psize, workers, parts, jobs, io, out >>

build_vars == << order_lines, path_i, result, sources, dests, tagseq,
                 source_count, source_size, selected >>
run_vars == << total, psize, parts, jobs, out >>

\* --------------------------------------------------------- command line
Options == [ nsrc : 0..MaxPaths, order : BOOLEAN, bucket : BOOLEAN, download : BOOLEAN,
             delete : BOOLEAN, cloud : BOOLEAN, basedir : BOOLEAN,
             tags : {NoTags, SomeTags}, dryrun : BOOLEAN ]

\* A real run that gives exactly the options its operation needs: a download or
\* a removal by order file, a download of one remote path, an upload of source
\* paths, an upload or a cloud copy by order file.
Plain(o) ==
    /\ ~o.dryrun
    /\ \/ o.download /\ o.basedir /\ ~o.delete /\ ~o.cloud /\ ~o.bucket
          /\ o.tags = NoTags /\ (IF o.order THEN o.nsrc = 0 ELSE o.nsrc = 1)
       \/ o.delete /\ o.order /\ ~o.download /\ ~o.cloud /\ ~o.bucket /\ ~o.basedir
          /\ o.tags = NoTags /\ o.nsrc = 0
       \/ o.nsrc > 0 /\ o.bucket /\ ~o.order /\ ~o.download /\ ~o.delete /\ ~o.cloud
          /\ ~o.basedir
       \/ o.order /\ o.nsrc = 0 /\ ~o.download /\ ~o.delete /\ ~o.bucket /\ ~o.basedir
          /\ (o.cloud => o.tags = NoTags)

\* The operation a command line selects, as the option checks read it.
OpKind(o) ==
    IF o.download THEN "download"
    ELSE IF o.delete THEN "delete"
    ELSE IF o.cloud THEN "cloud"
    ELSE "upload"

\* The option combinations listed as invalid.
ListedInvalid(o) ==
    \/ o.nsrc = 0 /\ ~o.order
    \/ OpKind(o) = "download" /\ ~o.basedir
    \/ OpKind(o) = "download" /\ o.tags # NoTags
    \/ OpKind(o) = "delete" /\ ~o.order
    \/ OpKind(o) = "cloud" /\ ~o.order
    \/ OpKind(o) = "upload" /\ ~o.order /\ ~o.bucket

\* Every option combination as a dry run, every listed invalid combination,
\* and the plain real runs.
InitOptions == { o \in Options : o.dryrun \/ ListedInvalid(o) \/ Plain(o) }

Init ==
    /\ opts \in InitOptions
    /\ pc = "check"
    /\ exit_code = "none"
    /\ order_lines = <<>>
    /\ path_i = 1
    /\ result = "none"
    /\ sources = <<>> /\ dests = <<>> /\ tagseq = <<>>
    /\ source_count = 0 /\ source_size = 0
    /\ selected = [count |-> 0, size |-> 0]
    /\ total = [count |-> 0, size |-> 0, time |-> 0]
    /\ psize = 1
    /\ workers \in 1..MaxWorkers
    /\ parts = <<>>
    /\ jobs = <<>>
    /\ io = [order_reads |-> 0, walks |-> 0, connects |-> 0, started |-> 0]
    /\ out = <<>>

\* check_parms without the "--cloud needs an order file" test.
ParmsMsgNoCloudTest(o) ==
    LET msg0 == IF o.nsrc = 0 /\ ~o.order THEN "order file or source path" ELSE ""
    IN  IF o.download
        THEN LET msg1 == IF ~o.basedir THEN "local base directory" ELSE msg0
             IN  IF o.tags # NoTags THEN "tags only when uploading" ELSE msg1
        ELSE IF o.delete /\ ~o.order THEN "order file with --delete"
        ELSE IF ~o.order /\ ~o.bucket THEN "order file or source path/bucket"
        ELSE msg0

\* check_parms: msg is assigned by each failed test, the last one wins.
ParmsMsg(o) ==
    LET msg0 == IF o.nsrc = 0 /\ ~o.order THEN "order file or source path" ELSE ""
    IN  IF o.download
        THEN LET msg1 == IF ~o.basedir THEN "local base directory" ELSE msg0
             IN  IF o.tags # NoTags THEN "tags only when uploading" ELSE msg1
        ELSE IF o.delete /\ ~o.order THEN "order file with --delete"
        ELSE IF o.cloud /\ ~o.order THEN "order file with --cloud"
        ELSE IF ~o.order /\ ~o.bucket THEN "order file or source path/bucket"
        ELSE msg0

CheckParms ==
    /\ pc = "check"
    /\ IF ParmsMsg(opts) # ""
       THEN pc' = "exited" /\ exit_code' = ExitFail
       ELSE pc' = "select" /\ exit_code' = exit_code
    /\ UNCHANGED << opts, workers, build_vars, run_vars, io >>

\* ------------------------------------------------------ string helpers
Chars == <<"a", "b", "c", "d">>
PathName(p) == <<Chars[p]>>
FileName(k) == <<Chars[k]>>
Bucket == <<"B">>
Basedir == <<"L">>
Slash == <<"/">>
Tab == <<"\t">>

RECURSIVE Join(_, _)
Join(fields, sep) ==
    IF fields = <<>> THEN <<>>
    ELSE IF Len(fields) = 1 THEN fields[1]
    ELSE fields[1] \o sep \o Join(Tail(fields), sep)

\* str.rstrip(): trailing whitespace (the newline, tabs) is removed.
RECURSIVE RStrip(_)
RStrip(s) ==
    IF s # <<>> /\ s[Len(s)] \in {"\t", "\n", " "}
    THEN RStrip(SubSeq(s, 1, Len(s) - 1))
    ELSE s

\* str.split(sep) for a one-character separator: "" splits to [""].
RECURSIVE SplitFrom(_, _, _)
SplitFrom(s, sep, cur) ==
    IF s = <<>> THEN <<cur>>
    ELSE IF Head(s) = sep THEN <<cur>> \o SplitFrom(Tail(s), sep, <<>>)
    ELSE SplitFrom(Tail(s), sep, Append(cur, Head(s)))

Split(s, sep) == SplitFrom(s, sep, <<>>)

\* str.replace(old, new): every non-overlapping occurrence, left to right;
\* an empty old matches before every character and at the end.
RECURSIVE Replace(_, _, _)
Replace(s, old, new) ==
    IF old = <<>>
    THEN IF s = <<>> THEN new ELSE new \o <<Head(s)>> \o Replace(Tail(s), old, new)
    ELSE IF Len(s) < Len(old) THEN s
    ELSE IF SubSeq(s, 1, Len(old)) = old
         THEN new \o Replace(SubSeq(s, Len(old) + 1, Len(s)), old, new)
         ELSE <<Head(s)>> \o Replace(Tail(s), old, new)

\* The text of an order-file line as readlines() returns it.
LineText(line) == Join(line, Tab) \o <<"\n">>

\* check_columns(line, require)
check_columns(text, require) == Len(Split(text, "\t")) = require

\* src.replace(src.split('/')[0], basedir)
DownloadDest(src, basedir) == Replace(src, Split(src, "/")[1], basedir)

\* dest_root / Path(f).relative_to(source_path), dest_root = Path(bucket) / Path(source_path).stem
RelativeTo(f, root) == SubSeq(f, Len(root) + 2, Len(f))
UploadDest(f, p) == Bucket \o Slash \o PathName(p) \o Slash \o RelativeTo(f, PathName(p))

\* A tag sequence one entry short.
TagBagShort(tags, n) == IF tags # NoTags THEN [i \in 1..(n - 1) |-> tags] ELSE <<>>

\* (tags,) * len(sources) if tags else None
TagBag(tags, n) == IF tags # NoTags THEN [i \in 1..n |-> tags] ELSE <<>>

\* ------------------------------------------------------------- builders
Exit(code) == pc' = "exited" /\ exit_code' = code
\* An exception nobody catches: the interpreter prints a traceback and stops.
Crash == pc' = "crashed" /\ exit_code' = "traceback"

StrippedLines(lines) == [i \in 1..Len(lines) |-> RStrip(LineText(lines[i]))]

Built(res, srcs, dsts, tgs, size) ==
    /\ result' = res
    /\ sources' = srcs /\ dests' = dsts /\ tagseq' = tgs
    /\ source_count' = Len(srcs) /\ source_size' = size
    /\ selected' = [count |-> selected.count + Len(srcs), size |-> selected.size + size]

\* s3_cli's choice of the builder (lines 587-601).
Mode(o) ==
    IF o.download THEN "get"
    ELSE IF o.delete THEN "rm"
    ELSE IF o.nsrc > 0 THEN "put"
    ELSE "put_order"

\* s3get with an order file: only the first line's columns are checked.
S3GetOrder ==
    /\ pc = "select" /\ Mode(opts) = "get" /\ opts.order
    /\ \E lines \in SeqsUpTo(OrderLines, MaxFiles) :
         LET texts == StrippedLines(lines)
         IN  /\ order_lines' = lines
             /\ io' = [io EXCEPT !.order_reads = @ + 1]
             /\ IF Len(lines) > 0 /\ ~check_columns(texts[1], 1)
                THEN /\ Exit(ExitFail)
                     /\ UNCHANGED << result, sources, dests, tagseq, source_count,
                                     source_size, selected >>
                ELSE /\ Built(IF opts.dryrun THEN "none" ELSE "iterget", texts,
                              [i \in 1..Len(texts) |-> DownloadDest(texts[i], Basedir)],
                              <<>>, 0)
                     /\ pc' = "execute" /\ exit_code' = exit_code
    /\ UNCHANGED << opts, workers, path_i, run_vars >>

\* walk_s3_path: osize is assigned, not added, for each object found.
RemoteKey(p, k) == PathName(p) \o Slash \o FileName(k)
WalkObjects(p, sizes) == [k \in 1..Len(sizes) |-> RemoteKey(p, k)]
WalkSize(sizes) == IF sizes = <<>> THEN 0 ELSE sizes[Len(sizes)]

\* s3get without an order file: one pass of "for source_path in source_paths",
\* the last pass going on to build the bag.
S3GetWalk ==
    /\ pc = "select" /\ Mode(opts) = "get" /\ ~opts.order
    /\ path_i <= opts.nsrc
    /\ \E sizes \in SeqsUpTo(0..MaxSize, MaxFiles) :
         LET objs == WalkObjects(path_i, sizes)
             srcs == sources \o objs
             dsts == dests \o [k \in 1..Len(objs) |-> DownloadDest(objs[k], Basedir)]
             size == source_size + Len(objs) * WalkSize(sizes)
         IN  /\ io' = [io EXCEPT !.walks = @ + 1, !.connects = @ + 1]
             /\ sources' = srcs /\ dests' = dsts /\ tagseq' = <<>>
             /\ source_count' = Len(srcs) /\ source_size' = size
             /\ selected' = [count |-> selected.count + Len(objs),
                             size |-> selected.size + SeqSum(sizes)]
    /\ path_i' = path_i + 1
    /\ IF path_i = opts.nsrc
       THEN pc' = "execute" /\ result' = IF opts.dryrun THEN "none" ELSE "iterget"
       ELSE pc' = pc /\ result' = result
    /\ UNCHANGED << opts, workers, exit_code, order_lines, run_vars >>

\* s3rm
S3Rm ==
    /\ pc = "select" /\ Mode(opts) = "rm"
    /\ \E lines \in SeqsUpTo(OrderLines, MaxFiles) :
         LET texts == StrippedLines(lines)
         IN  /\ order_lines' = lines
             /\ io' = [io EXCEPT !.order_reads = @ + 1]
             /\ IF Len(lines) > 0 /\ ~check_columns(texts[1], 1)
                THEN /\ Exit(ExitFail)
                     /\ UNCHANGED << result, sources, dests, tagseq, source_count,
                                     source_size, selected >>
                ELSE /\ Built(IF opts.dryrun THEN "none" ELSE "iterrm", texts, <<>>, <<>>, 0)
                     /\ pc' = "execute" /\ exit_code' = exit_code
    /\ UNCHANGED << opts, workers, path_i, run_vars >>

\* fwalk: the files found under a source path, in enumeration order.
LocalFile(p, k) == PathName(p) \o Slash \o FileName(k)
FwalkResults(p, sizes) == [k \in 1..Len(sizes) |-> LocalFile(p, k)]

\* One pass of "for source_path in source_paths" of s3_cli: s3put for that path.
\* Path(bucket) raises TypeError when no bucket was given.
S3Put ==
    /\ pc = "select" /\ Mode(opts) = "put"
    /\ path_i <= opts.nsrc
    /\ IF ~opts.bucket
       THEN /\ Crash
            /\ UNCHANGED << build_vars, io >>
       ELSE /\ \E sizes \in SeqsUpTo(0..MaxSize, MaxFiles) :
                 LET srcs == FwalkResults(path_i, sizes)
                 IN  IF opts.dryrun
                     THEN Built("none", srcs, <<>>, <<>>, SeqSum(sizes))
                     ELSE Built("iterput", srcs,
                                [k \in 1..Len(srcs) |-> UploadDest(srcs[k], path_i)],
                                TagBag(opts.tags, Len(srcs)), SeqSum(sizes))
            /\ io' = [io EXCEPT !.walks = @ + 1]
            /\ path_i' = path_i + 1
            /\ pc' = IF path_i = opts.nsrc THEN "execute" ELSE pc
            /\ UNCHANGED << exit_code, order_lines >>
    /\ UNCHANGED << opts, workers, run_vars >>

\* s3put_order: the first line's columns are checked; every line is unpacked
\* into two fields, which raises ValueError for any other number of fields.
S3PutOrder ==
    /\ pc = "select" /\ Mode(opts) = "put_order"
    /\ \E lines \in SeqsUpTo(OrderLines, MaxFiles) :
         LET texts == StrippedLines(lines)
             n == Len(lines)
         IN  /\ order_lines' = lines
             /\ io' = [io EXCEPT !.order_reads = @ + 1]
             /\ IF n > 0 /\ ~check_columns(texts[1], 2)
                THEN /\ Exit(ExitFail)
                     /\ UNCHANGED << result, sources, dests, tagseq, source_count,
                                     source_size, selected >>
                ELSE IF \E i \in 1..n : Len(Split(texts[i], "\t")) # 2
                THEN /\ Crash
                     /\ UNCHANGED << result, sources, dests, tagseq, source_count,
                                     source_size, selected >>
                ELSE /\ \E sizes \in [1..n -> 0..MaxSize] :
                          Built(IF opts.dryrun THEN "none"
                                ELSE IF opts.cloud THEN "itercloud" ELSE "iterput",
                                [i \in 1..n |-> Split(texts[i], "\t")[1]],
                                [i \in 1..n |-> Split(texts[i], "\t")[2]],
                                IF opts.cloud \/ opts.dryrun THEN <<>>
                                ELSE TagBag(opts.tags, n),
                                IF opts.cloud THEN 0 ELSE SeqSum(sizes))
                     /\ pc' = "execute" /\ exit_code' = exit_code
    /\ UNCHANGED << opts, workers, path_i, run_vars >>

\* ------------------------------------------------------------ dispatch
NewJob == [st |-> "pending", tries |-> 0, added |-> FALSE,
           nprim |-> 0, nxattr |-> 0, ntags |-> 0]

\* bag.from_sequence cuts a sequence of n items into partitions of psize items,
\* a single empty partition when n = 0. The size follows from n (1 below 100
\* items, n / 100 above); any size from 1 to n is taken here, the same for the
\* source, destination and tag bags, which have the same length. map_partitions
\* calls the iter function once per partition, num_workers of them at a time.
NumParts(n, size) == IF n = 0 THEN 1 ELSE (n + size - 1) \div size
PartLo(p) == (p - 1) * psize + 1
PartHi(p) == IF p * psize < Len(jobs) THEN p * psize ELSE Len(jobs)
Active == { p \in 1..Len(parts) : parts[p].status = "active" }

\* total = {'count': source_count, 'size': source_size, 'time': 0}: the totals are
\* the arguments of execute_transfers; the worker count is not read.
TotalsPerWorker(count, size) == [count |-> count * workers, size |-> size * workers, time |-> 0]
Totals(count, size) == [count |-> count, size |-> size, time |-> 0]

\* "if result:": the bag is computed only when a builder returned one.
HasBagAlways(res) == TRUE
HasBag(res) == res # "none"

\* execute_transfers up to compute(): the totals are taken from the last builder call.
ExecuteTransfers ==
    /\ pc = "execute"
    /\ total' = Totals(source_count, source_size)
    /\ IF HasBag(result)
       THEN /\ \E size \in 1..(IF Len(sources) = 0 THEN 1 ELSE Len(sources)) :
                 /\ psize' = size
                 /\ parts' = [p \in 1..NumParts(Len(sources), size) |->
                                 [status |-> "waiting", pos |-> 0]]
            /\ jobs' = [j \in 1..Len(sources) |-> NewJob]
            /\ pc' = "compute"
       ELSE /\ pc' = "stats"
            /\ UNCHANGED << psize, parts, jobs >>
    /\ selected' = [count |-> 0, size |-> 0]
    /\ UNCHANGED << opts, workers, exit_code, order_lines, path_i, result, sources, dests,
                    tagseq, source_count, source_size, io, out >>

\* A pool process takes a partition: iterget / iterrm / iterput / itercloud
\* connects and enters its for loop.
StartPartition(p) ==
    /\ pc = "compute"
    /\ parts[p].status = "waiting"
    /\ Cardinality(Active) < workers
    /\ parts' = [parts EXCEPT ![p] =
                    IF PartLo(p) > PartHi(p)
                    THEN [status |-> "finished", pos |-> PartLo(p)]
                    ELSE [status |-> "active", pos |-> PartLo(p)]]
    /\ io' = [io EXCEPT !.connects = @ + 1, !.started = @ + 1]
    /\ UNCHANGED << opts, workers, pc, exit_code, build_vars, total, psize, jobs, out >>

\* A loop that walks its partition from the end.
CurrentReversed(p) == PartHi(p) - (parts[p].pos - PartLo(p))

\* The job the for loop of partition p is at.
Current(p) == parts[p].pos

\* A loop that steps over the item after the one it finished.
ReturnedSkips(p) ==
    [parts EXCEPT ![p] = IF parts[p].pos + 2 > PartHi(p)
                         THEN [status |-> "finished", pos |-> parts[p].pos + 2]
                         ELSE [status |-> "active", pos |-> parts[p].pos + 2]]

\* The single-file function returned: the loop goes to the next item or ends.
Returned(p) ==
    [parts EXCEPT ![p] = IF parts[p].pos + 1 > PartHi(p)
                         THEN [status |-> "finished", pos |-> parts[p].pos + 1]
                         ELSE [status |-> "active", pos |-> parts[p].pos + 1]]

\* A failure that is reported without leaving the loop.
ExitedContinues(p) ==
    [parts EXCEPT ![p] = IF parts[p].pos + 1 > PartHi(p)
                         THEN [status |-> "finished", pos |-> parts[p].pos + 1]
                         ELSE [status |-> "active", pos |-> parts[p].pos + 1]]

\* sys.exit(-1) in a single-file function: the partition stops and the
\* exit ends the run; pool processes already at work finish their partitions.
Exited(p) == [parts EXCEPT ![p].status = "failed"]

\* download_single_file, remove_single_file, copy_single_file
Transfer(p) ==
    /\ parts[p].status = "active"
    /\ result \in {"iterget", "iterrm", "itercloud"}
    /\ jobs[Current(p)].st = "pending"
    /\ \E ok \in BOOLEAN :
         IF ok
         THEN /\ jobs' = [jobs EXCEPT ![Current(p)].st = "done", ![Current(p)].nprim = @ + 1]
              /\ parts' = Returned(p)
              /\ UNCHANGED << pc, exit_code >>
         ELSE /\ jobs' = [jobs EXCEPT ![Current(p)].st = "failed", ![Current(p)].nprim = @ + 1]
              /\ parts' = Exited(p)
              /\ Exit(ExitFail)
    /\ UNCHANGED << opts, workers, build_vars, total, psize, io, out >>

\* A loop test that lets a ninth attempt through.
LoopGuardOffByOne(job) == job.added = FALSE /\ job.tries >= 0

\* "while added is False and tries"
LoopGuard(job) == job.added = FALSE /\ job.tries # 0

\* The tag zipped to job j by iterput: none when no tag sequence was given.
JobTag(j) == IF tagseq = <<>> THEN NoTags ELSE tagseq[j]

\* Where upload_single_file goes after the while loop: "if not added: return",
\* "if not tag: return", else on to put_tags.
AfterLoop(job, tag) ==
    IF ~job.added THEN "done"
    ELSE IF tag = NoTags THEN "done"
    ELSE "tag"

\* The while test of upload_single_file: the job stays in the loop, or leaves
\* it and its loop variables are gone.
LoopTest(job, tag) ==
    IF LoopGuard(job) THEN [job EXCEPT !.st = "ctype"]
    ELSE [job EXCEPT !.st = AfterLoop(job, tag), !.tries = 0, !.nxattr = 0]

\* upload_single_file: sfs.put, then "added = False; tries = 8" and the first
\* while test.
Put(p) ==
    /\ parts[p].status = "active"
    /\ result = "iterput"
    /\ jobs[Current(p)].st = "pending"
    /\ \E ok \in BOOLEAN :
         IF ok
         THEN LET job == LoopTest([jobs[Current(p)] EXCEPT !.nprim = @ + 1,
                                      !.tries = Tries, !.added = FALSE],
                                  JobTag(Current(p)))
              IN  /\ jobs' = [jobs EXCEPT ![Current(p)] = job]
                  /\ parts' = IF job.st = "done" THEN Returned(p) ELSE parts
                  /\ UNCHANGED << pc, exit_code >>
         ELSE /\ jobs' = [jobs EXCEPT ![Current(p)].st = "failed", ![Current(p)].nprim = @ + 1]
              /\ parts' = Exited(p)
              /\ Exit(ExitFail)
    /\ UNCHANGED << opts, workers, build_vars, total, psize, io, out >>

\* upload_single_file: one pass of the while loop around sfs.setxattr, and the
\* while test that follows it.
SetXattr(p) ==
    /\ parts[p].status = "active"
    /\ jobs[Current(p)].st = "ctype"
    /\ \E ok \in BOOLEAN :
         LET tried == IF ok THEN [jobs[Current(p)] EXCEPT !.added = TRUE, !.nxattr = @ + 1]
                      ELSE [jobs[Current(p)] EXCEPT !.tries = @ - 1, !.nxattr = @ + 1]
             job == LoopTest(tried, JobTag(Current(p)))
         IN  /\ jobs' = [jobs EXCEPT ![Current(p)] = job]
             /\ parts' = IF job.st = "done" THEN Returned(p) ELSE parts
    /\ UNCHANGED << opts, workers, pc, exit_code, build_vars, total, psize, io, out >>

\* upload_single_file: sfs.put_tags
PutTags(p) ==
    /\ parts[p].status = "active"
    /\ jobs[Current(p)].st = "tag"
    /\ \E ok \in BOOLEAN :
         IF ok
         THEN /\ jobs' = [jobs EXCEPT ![Current(p)].st = "done", ![Current(p)].ntags = @ + 1]
              /\ parts' = Returned(p)
              /\ UNCHANGED << pc, exit_code >>
         ELSE /\ jobs' = [jobs EXCEPT ![Current(p)].st = "failed", ![Current(p)].ntags = @ + 1]
              /\ parts' = Exited(p)
              /\ Exit(ExitFail)
    /\ UNCHANGED << opts, workers, build_vars, total, psize, io, out >>

\* compute() returns once every partition is done; the elapsed time is taken.
ComputeDone ==
    /\ pc = "compute"
    /\ \A p \in 1..Len(parts) : parts[p].status = "finished"
    /\ \E t \in 1..MaxTime : total' = [total EXCEPT !.time = t]
    /\ pc' = "stats"
    /\ UNCHANGED << opts, workers, exit_code, build_vars, psize, parts, jobs, io, out >>

\* print_stats, called when there are source paths or an order file: the size
\* line is printed, then the rate is computed by dividing by the elapsed time.
PrintStats ==
    /\ pc = "stats"
    /\ IF opts.nsrc >= 1 \/ opts.order
       THEN IF total.size # 0
            THEN IF total.time = 0
                 THEN out' = <<"files", "size">> /\ Crash
                 ELSE out' = <<"files", "size", "rate">> /\ pc' = "done" /\ exit_code' = 0
            ELSE out' = <<"files">> /\ pc' = "done" /\ exit_code' = 0
       ELSE out' = out /\ pc' = "done" /\ exit_code' = 0
    /\ UNCHANGED << opts, workers, build_vars, total, psize, parts, jobs, io >>

Next ==
    \/ CheckParms
    \/ S3GetOrder
    \/ S3GetWalk
    \/ S3Rm
    \/ S3Put
    \/ S3PutOrder
    \/ ExecuteTransfers
    \/ \E p \in 1..Len(parts) : StartPartition(p)
    \/ \E p \in 1..Len(parts) : Transfer(p)
    \/ \E p \in 1..Len(parts) : Put(p)
    \/ \E p \in 1..Len(parts) : SetXattr(p)
    \/ \E p \in 1..Len(parts) : PutTags(p)
    \/ ComputeDone
    \/ PrintStats

Spec == Init /\ [][Next]_vars

\* ============================================================== claims
InPart(j, p) == PartLo(p) <= j /\ j <= PartHi(p)
Printed(line) == \E i \in 1..Len(out) : out[i] = line

\* C1: when the transfer primitive of a job raises an error (put, get, remove,
\* copy or tag write), the run is aborted with exit code -1: no later job of the
\* same partition is ever attempted, and no statistics are printed.
C1_FailedJobAbortsRun ==
    \A p \in 1..Len(parts) : \A j \in 1..Len(jobs) :
        (InPart(j, p) /\ jobs[j].st = "failed") =>
            /\ pc = "exited" /\ exit_code = ExitFail
            /\ out = <<>>
            /\ parts[p].status = "failed"
            /\ \A k \in (j + 1)..PartHi(p) :
                   jobs[k].st = "pending" /\ jobs[k].nprim = 0 /\ jobs[k].ntags = 0

\* C1 witness: a job failed while a later job of its partition was still to come.
C1_Witness ==
    \E p \in 1..Len(parts) : \E j \in 1..Len(jobs) :
        InPart(j, p) /\ jobs[j].st = "failed" /\ j < PartHi(p)

NothingTouched ==
    /\ io.order_reads = 0 /\ io.walks = 0 /\ io.connects = 0 /\ io.started = 0
    /\ order_lines = <<>> /\ parts = <<>> /\ jobs = <<>> /\ sources = <<>>

\* C2: for every invalid option combination the program exits with code -1
\* before an order file is read, a connection is opened, a listing or walk is
\* done or a worker is started.
C2_InvalidOptionsExitFirst ==
    ListedInvalid(opts) =>
        /\ pc \in {"check", "exited"}
        /\ pc = "exited" => exit_code = ExitFail
        /\ NothingTouched

\* C2 witness: an invalid download (no base directory) has exited.
C2_Witness ==
    /\ ListedInvalid(opts) /\ opts.download /\ ~opts.basedir /\ opts.nsrc > 0
    /\ pc = "exited" /\ exit_code = ExitFail

\* C3: print_stats never divides by zero: the size and the rate are printed only
\* when the elapsed time and the total size are both nonzero, and the file count
\* is always printed.
C3_StatsNeverDivideByZero ==
    /\ (Printed("size") \/ Printed("rate")) => (total.time # 0 /\ total.size # 0)
    /\ pc = "crashed" => out = <<>>
    /\ pc = "done" => Printed("files")

\* C4: an upload of several source paths dispatches the files selected from
\* every source path, and its totals are the sums over the source paths.
C4_TotalsSumOverSourcePaths ==
    [][ (pc = "execute" /\ Mode(opts) = "put") =>
            /\ total'.count = selected.count
            /\ total'.size = selected.size
            /\ (result # "none" => Len(jobs') = selected.count) ]_vars

\* C5: an upload job with a tag mapping whose put succeeded goes put, content
\* type, tag write, and the tag write is attempted exactly once when the content
\* type assignment is over, whether it succeeded or not.
C5_TagWriteAfterContentType ==
    \A j \in 1..Len(jobs) :
        (result = "iterput" /\ JobTag(j) # NoTags) =>
            /\ jobs[j].ntags > 0 => (jobs[j].nprim = 1 /\ jobs[j].st \in {"done", "failed"})
            /\ jobs[j].st = "tag" => (jobs[j].nprim = 1 /\ jobs[j].ntags = 0)
            /\ jobs[j].st = "done" => jobs[j].ntags = 1

\* C6: the content type assignment of an uploaded file is attempted at least
\* once and at most 8 times, never after a successful attempt; put, get, remove,
\* copy and tag write are attempted at most once per job.
C6_InLoop ==
    \A j \in 1..Len(jobs) :
        /\ jobs[j].nprim <= 1 /\ jobs[j].ntags <= 1
        /\ jobs[j].st = "ctype" =>
              /\ ~jobs[j].added
              /\ jobs[j].nxattr < Tries
              /\ jobs[j].nprim = 1
        /\ jobs[j].st # "ctype" => jobs[j].nxattr = 0

C6_Steps ==
    \A j \in 1..Len(jobs) :
        \* a successful put is followed by a first attempt
        /\ (jobs[j].st = "pending" /\ jobs'[j].st \notin {"pending", "failed"}
              /\ result = "iterput") => jobs'[j].st = "ctype"
        \* each step in the loop is one attempt; the loop is left on success or
        \* with the 8th attempt
        /\ (jobs[j].st = "ctype" /\ jobs'[j].st = "ctype" /\ jobs'[j] # jobs[j]) =>
              jobs'[j].nxattr = jobs[j].nxattr + 1
        /\ (jobs[j].st = "ctype" /\ jobs'[j].st # "ctype") =>
              (jobs'[j].added \/ jobs[j].nxattr + 1 = Tries)

C6_BoundedRetry == [](C6_InLoop) /\ [][C6_Steps]_vars

\* C6 witness: seven attempts have failed and the eighth is about to be made.
C6_Witness ==
    \E j \in 1..Len(jobs) : jobs[j].st = "ctype" /\ jobs[j].nxattr = Tries - 1

\* The columns an order file must have for the operation.
Required(o) == IF Mode(o) \in {"get", "rm"} THEN 1 ELSE 2

\* C7: if any line of the order file, at any position, has the wrong number of
\* columns, the program aborts before a transfer starts and no job is built
\* from the line.
C7_MalformedLineAborts ==
    \A i \in 1..Len(order_lines) :
        ~check_columns(RStrip(LineText(order_lines[i])), Required(opts)) =>
            /\ pc \in {"exited", "crashed"}
            /\ sources = <<>> /\ jobs = <<>> /\ io.started = 0

\* C8: when dispatch completes in a run in which no job failed, every job of the
\* job list has been performed exactly once.
C8_EveryJobOnce ==
    total.time # 0 =>
        /\ Len(jobs) = Len(sources)
        /\ \A j \in 1..Len(jobs) : jobs[j].st = "done" /\ jobs[j].nprim = 1

\* C8 witness: dispatch completed with two workers and two partitions.
C8_Witness ==
    /\ total.time # 0 /\ workers >= 2 /\ Len(parts) >= 2 /\ Len(jobs) >= 2

\* C9: the source, destination and tag sequences handed to the dispatcher have
\* equal length and matching order.
C9_SequencesAligned ==
    result # "none" =>
        /\ result # "iterrm" => Len(dests) = Len(sources)
        /\ tagseq # <<>> => (result = "iterput" /\ Len(tagseq) = Len(sources))
        /\ \A i \in 1..Len(tagseq) : tagseq[i] = opts.tags
        /\ (result = "iterput" /\ opts.tags # NoTags /\ sources # <<>>) => tagseq # <<>>
        /\ result = "iterget" =>
              \A i \in 1..Len(sources) : dests[i] = DownloadDest(sources[i], Basedir)
        /\ Mode(opts) = "put" =>
              \A i \in 1..Len(sources) :
                  /\ sources[i] = LocalFile(path_i - 1, i)
                  /\ dests[i] = Bucket \o Slash \o PathName(path_i - 1) \o Slash \o FileName(i)
        /\ Mode(opts) = "put_order" =>
              \A i \in 1..Len(sources) :
                  RStrip(LineText(order_lines[i])) = sources[i] \o Tab \o dests[i]
        /\ pc \in {"compute", "stats", "done"} => Len(jobs) = Len(sources)

\* C9 witness: a tagged upload of two files or more has been built.
C9_Witness ==
    /\ result = "iterput" /\ tagseq # <<>> /\ Len(sources) >= 2

\* C10: within a partition the jobs are started in the order of the job list: a
\* job is started only when every earlier job of the partition has finished.
C10_PartitionInOrder ==
    \A p \in 1..Len(parts) : \A j \in 1..Len(jobs) :
        (InPart(j, p) /\ jobs[j].st # "pending") =>
            \A i \in PartLo(p)..(j - 1) : jobs[i].st = "done"

\* C10 witness: the second job of a partition has been started.
C10_Witness ==
    \E p \in 1..Len(parts) : \E j \in 1..Len(jobs) :
        InPart(j, p) /\ j > PartLo(p) /\ jobs[j].st # "pending"

\* C11: the final statistics are those of the job list whatever the number of
\* workers and the interleaving of their steps: from the dispatch on, the file
\* count is the length of the job list and the byte total is the size the
\* builder returned; only the elapsed time is set by the computation.
C11_StatsIndependentOfWorkers ==
    /\ pc \in {"compute", "stats", "done"} =>
           /\ total.count = Len(sources)
           /\ total.size = source_size
    /\ io.started > 0 =>
           /\ total.count = Len(sources)
           /\ total.size = source_size

\* C11 witness: two workers have run a job list of two files or more in two
\* partitions and the statistics have been printed.
C11_Witness ==
    /\ pc = "done" /\ workers >= 2 /\ Len(parts) >= 2
    /\ total.count >= 2 /\ total.size >= 1 /\ total.time # 0

\* The key with its first path segment, and nothing else, replaced by the base
\* directory.
FirstSegmentReplaced(src, basedir) ==
    basedir \o SubSeq(src, Len(Split(src, "/")[1]) + 1, Len(src))

\* C12: for every download job the local destination is the remote key with
\* only its first path segment replaced by the base directory; every later
\* segment is unchanged, also when the first segment's text occurs again.
C12_OnlyFirstSegmentReplaced ==
    Mode(opts) = "get" =>
        \A i \in 1..Len(dests) : dests[i] = FirstSegmentReplaced(sources[i], Basedir)

\* C13: every option combination that check_parms accepts supplies what the
\* operation selected by s3_cli needs: a base directory for download, an order
\* file for remove and for cloud copy, a bucket for upload by source path; an
\* accepted run with --cloud is a server-side copy, and an accepted upload by
\* source path is never stopped by a missing bucket.
C13_AcceptedOptionsSuffice ==
    (pc # "check" /\ ParmsMsg(opts) = "") =>
        /\ Mode(opts) = "get" => opts.basedir
        /\ Mode(opts) = "rm" => opts.order
        /\ Mode(opts) = "put_order" => opts.order
        /\ Mode(opts) = "put" => opts.bucket
        /\ opts.cloud => Mode(opts) = "put_order"
        /\ (opts.cloud /\ result # "none") => result = "itercloud"
        /\ ~(Mode(opts) = "put" /\ pc = "crashed" /\ io.walks = 0)

\* C14: in a dry run, whatever the operation, no bag is built and none is
\* computed: no partition is created, no worker is started, and no put, get,
\* remove, copy, content-type assignment or tag write is made (no job record
\* exists to count one); the run only selects and counts the jobs.
C14_DryRunTouchesNothing ==
    opts.dryrun =>
        /\ result = "none"
        /\ pc # "compute"
        /\ jobs = <<>> /\ parts = <<>>
        /\ io.started = 0
        /\ total.time = 0
        /\ pc \in {"stats", "done", "crashed"} => source_count = Len(sources)
        /\ pc \in {"stats", "done"} => total.count = Len(sources)

\* C14 witness: a dry run has selected two jobs or more and has gone through
\* execute_transfers.
C14_Witness ==
    /\ opts.dryrun /\ pc = "stats" /\ total.count >= 2

\* C15: for a download selected by source path, the size walk_s3_path returns
\* is the sum of the sizes of the objects found, so that the total size of
\* s3get, after each source path, is the sum of the sizes of all objects
\* selected so far.
C15_DownloadSizeIsSum ==
    (Mode(opts) = "get" /\ ~opts.order /\ pc \in {"select", "execute"}) =>
        /\ source_count = selected.count
        /\ source_size = selected.size
====
